---- MODULE Spec2Model ----
(***************************************************************************)
(* PTPPing: PTP time manager (ptpping/core/ptp_time.py), burst scheduler   *)
(* (ptpping/generator/audio_generator.py) and tone detector / latency      *)
(* estimator (ptpping/capture/audio_capture.py).                           *)
(*                                                                         *)
(* Time values are Python floats.  A float is modelled as an integer       *)
(* number of ticks (TicksPerSecond ticks per second) that has at most      *)
(* MantBits significant bits; every arithmetic result is rounded to the    *)
(* nearest such value, ties to even, as IEEE-754 does with 53 bits.        *)
(***************************************************************************)
EXTENDS Integers, Sequences, FiniteSets, TLC

\* ------------------------------------------------------------------ bounds
MantBits == 9          \* significand width of the modelled float format
TicksPerSecond == 4    \* resolution of the modelled time axis
Horizon == 6           \* ticks of local time followed after each long idle period
MaxIdle == 1           \* number of long idle periods (longer than the check interval)
MaxHistory == 2        \* number of detections followed in one run
CapHorizon == 4        \* ticks of local time followed while capturing
MagUnits == 10         \* magnitude units per 1.0 of normalized magnitude

\* ------------------------------------------------------- float arithmetic
RECURSIVE Pow2(_)
Pow2(n) == IF n = 0 THEN 1 ELSE 2 * Pow2(n - 1)

MantLimit == Pow2(MantBits)

RECURSIVE RoundAt(_, _)
\* x >= 0 rounded to a multiple of the unit u (a power of two) that leaves
\* at most MantBits significant bits; round half to even
RoundAt(x, u) ==
    IF x < MantLimit * u
    THEN LET q == x \div u
             r == x % u
         IN IF 2 * r > u \/ (2 * r = u /\ q % 2 = 1) THEN (q + 1) * u ELSE q * u
    ELSE RoundAt(x, 2 * u)

Round(x) == IF x >= 0 THEN RoundAt(x, 1) ELSE 0 - RoundAt(0 - x, 1)

IsFloat(x) == Round(x) = x

FAdd(a, b) == Round(a + b)
FSub(a, b) == Round(a - b)
FMul(a, b) == Round(a * b)
\* Python's float // : the floor of the exact quotient, as a float
FloorDiv(a, b) == Round(a \div b)

\* ------------------------------------------------------ program constants
\* self._sync_check_interval = 60 (seconds)
SyncCheckInterval == 60 * TicksPerSecond
\* self._last_sync_check = 0
InitialLastSyncCheck == 0
\* clock classes that count as synchronized: 6 = locked, 7 = holdover
SyncClasses == {6, 7}

\* self._detection_threshold = 0.1, in magnitude units
DetectionThreshold == MagUnits \div 10
\* self._min_burst_gap = 0.5 (seconds)
MinBurstGap == TicksPerSecond \div 2

\* get_ptp_time's declared "no value" (Optional[float]); times are >= 0
NoneVal == 0 - 1

\* --------------------------------------------------------- the environment
\* time.time() is seconds since 1970: it is far beyond the check interval
Epoch == SyncCheckInterval + 1
\* the local clock readings the model follows: a few ticks from the start,
\* and a few ticks after each long idle period
ClockValues ==
    {c \in Epoch .. Epoch + MaxIdle * SyncCheckInterval + Horizon :
        /\ Round(c) = c
        /\ \E k \in 0 .. MaxIdle :
              /\ c >= Epoch + k * SyncCheckInterval
              /\ c <= Epoch + k * SyncCheckInterval + Horizon}

\* the local clock readings followed while capturing
CapClockValues == {c \in ClockValues : c <= Epoch + CapHorizon}

\* how much the local clock advances while one call into the manager runs
Elapse == {0, 1}
\* how much the local clock advances between two calls
TickSteps == {1, SyncCheckInterval}

\* config.audio.burst_interval values, in ticks (0.75 s and 1 s)
Periods == {3, 4}
\* the same, and the burst_interval of 0 a configuration file can carry
GenPeriods == Periods \cup {0}
\* time.sleep(0.1), the wait when no time is available
FallbackSleep == TicksPerSecond \div 10
\* number of bursts followed in one run of the generator
MaxBursts == 3

\* by how many ticks the local clock can be set back at once
BackSteps == {1, MinBurstGap + 1}

\* normalized magnitudes of a window: silence, exactly the threshold, above
Magnitudes == {0, DetectionThreshold, DetectionThreshold + 1}

\* the constant distance of the PTP hardware clock from the local clock
PtpOffsets == {0, MantLimit}

\* pgrep ptp4l: exit status 0, non-zero exit status, TimeoutExpired, or
\* another exception (e.g. the program is missing)
PgrepOutcomes == {"ok", "nonzero", "timeout", "error"}
\* pmc get CLOCK_CLASS: a parsable class, or one of the failures
ClockClasses == {6, 7, 52}
PmcFailures == {"nonzero", "noline", "unparsable", "timeout", "error"}
ProbeOutcomes ==
    {[pgrep |-> "ok", pmc |-> "class", cls |-> c] : c \in ClockClasses}
    \cup {[pgrep |-> "ok", pmc |-> f, cls |-> 0] : f \in PmcFailures}
    \cup {[pgrep |-> g, pmc |-> "notrun", cls |-> 0] : g \in PgrepOutcomes \ {"ok"}}
NoProbe == [pgrep |-> "none", pmc |-> "none", cls |-> 0]
\* phc_ctl get: a line with a parsable time, or one of the failures
PhcOutcomes == {"time", "nonzero", "noline", "unparsable", "timeout", "error"}

VARIABLES
    clock,          \* time.time(), in ticks
    ptpOffset,      \* PTP hardware clock minus local clock (environment)
    ptpSync,        \* PTPTimeManager._ptp_sync
    lastSyncCheck,  \* PTPTimeManager._last_sync_check
    flagAsOf,       \* ghost: the clock reading at which _ptp_sync was last determined
    call,           \* ghost: the last call a client made into PTPTimeManager and what it returned
    thr,            \* the threads inside PTPTimeManager's refresh of the sync status
    period,         \* config.audio.burst_interval, in ticks
    genRunning,     \* AudioGenerator._running
    genPc,          \* where the thread running AudioGenerator._run is
    vlcProcess,     \* AudioGenerator._vlc_process is not None
    wait,           \* the locals of the last _wait_for_next_burst
    wakeAt,         \* local clock reading at which the current time.sleep ends
    triggers,       \* ghost: number of _trigger_burst calls so far
    targets,        \* ghost: the boundaries waited for before each _trigger_burst
    stopPc,         \* where the thread calling AudioGenerator.stop is
    stopAt,         \* ghost: local clock reading when stop() was last called
    capRunning,     \* AudioCapture._running
    capPc,          \* how far AudioCapture.start has got
    streamActive,   \* the audio stream delivers callbacks
    writeApi,       \* AudioCapture._write_api is not None
    lastBurstTime,  \* AudioCapture._last_burst_time
    detectedBursts, \* AudioCapture._detected_bursts
    sink,           \* the points written to InfluxDB
    chunk,          \* ghost: the last window handed to _audio_callback
    cfg,            \* the Config that Config.from_file builds from the file
    validated,      \* ghost: what the last Config.validate() call did
    mainPc,         \* where main() is
    twin,           \* two executions of _detect_burst from one state, side by side
    capRes,         \* AudioCapture._audio, ._stream, ._thread: set or None
    oldLoop,        \* the loop thread that a timed-out join left behind
    recent,         \* the last get_recent_bursts call and what it returned
    script          \* a run of the installation check script

otherVars == <<cfg, validated, mainPc, twin, capRes, oldLoop, recent,
               script>>
mgrVars == <<ptpSync, lastSyncCheck, flagAsOf, call, thr>>
genVars == <<genRunning, genPc, vlcProcess, wait, wakeAt, triggers, targets,
            stopPc, stopAt>>
capVars == <<capRunning, capPc, streamActive, writeApi, lastBurstTime,
             detectedBursts, sink, chunk>>
vars == <<clock, ptpOffset, ptpSync, lastSyncCheck, flagAsOf, call, thr, period,
          cfg, validated, mainPc, twin, capRes, oldLoop, recent, script,
          genRunning, genPc, vlcProcess, wait, wakeAt, triggers, targets,
          stopPc, stopAt,
          capRunning, capPc, streamActive, writeApi, lastBurstTime,
          detectedBursts, sink, chunk>>

\* the two threads that call into one PTPTimeManager: the audio backend's
\* callback thread (get_ptp_time) and a caller of get_status (is_synchronized)
Threads == {"audio_callback", "get_status"}
NoThread == [pc |-> "idle", now |-> 0, seen |-> 0]

\* the reading of the PTP hardware clock when the local clock shows c
PtpNow(c) == Round(c + ptpOffset)

\* ---------------------------------------------------- test_ptpping.py
\* subprocess.run([tool, '--help']): exit status 0, another exit status,
\* FileNotFoundError, TimeoutExpired
ToolOutcomes == {"ok", "nonzero", "notfound", "timeout"}
\* ptp4l, phc_ctl, pmc
PtpTools == 1 .. 3

\* what the script finds on the machine: the modules import, each PTP tool,
\* a loopback device, a complete configuration file, a running ptp4l
ScriptEnvs ==
    [imports : BOOLEAN, tools : [PtpTools -> ToolOutcomes], audio : BOOLEAN,
     config : BOOLEAN, interface : BOOLEAN]

\* the tools test_ptp_tools puts on its missing_tools list
MissingTools(tools) == {i \in PtpTools : tools[i] \in {"nonzero", "notfound"}}

\* test_ptp_tools: return False when a tool is missing, and return False
\* at the end
TestPtpTools(tools) == IF MissingTools(tools) # {} THEN FALSE ELSE FALSE

\* the checks of main's tests list, in order
ScriptChecks == 1 .. 5
CheckResult(i, env) ==
    IF i = 1 THEN env.imports
    ELSE IF i = 2 THEN TestPtpTools(env.tools)
    ELSE IF i = 3 THEN env.audio
    ELSE IF i = 4 THEN env.config
    ELSE env.interface

\* main: passed == total gives 0, else 1
ScriptReturnCode(results) ==
    IF Cardinality({i \in 1 .. Len(results) : results[i]}) = Len(results)
    THEN 0 ELSE 1

NoScript == [pc |-> 0, env |-> <<>>, results |-> <<>>, ret |-> 0 - 1]

\* the script is started on a machine
ScriptStart ==
    /\ script.pc = 0
    /\ \E env \in ScriptEnvs :
          script' = [NoScript EXCEPT !.pc = 1, !.env = env]
    /\ UNCHANGED <<clock, ptpOffset, period, cfg, validated, mainPc, twin,
                   capRes, oldLoop, recent, mgrVars, genVars, capVars>>

\* main: result = test_func(); results.append((test_name, result))
ScriptCheck ==
    /\ script.pc \in ScriptChecks
    /\ script' = [script EXCEPT
                     !.results = Append(@, CheckResult(script.pc, script.env)),
                     !.pc = @ + 1]
    /\ UNCHANGED <<clock, ptpOffset, period, cfg, validated, mainPc, twin,
                   capRes, oldLoop, recent, mgrVars, genVars, capVars>>

\* main: the summary and the return code
ScriptReturn ==
    /\ script.pc = 6
    /\ script' = [script EXCEPT !.ret = ScriptReturnCode(script.results),
                                !.pc = 7]
    /\ UNCHANGED <<clock, ptpOffset, period, cfg, validated, mainPc, twin,
                   capRes, oldLoop, recent, mgrVars, genVars, capVars>>

\* ----------------------------------------------------- Config and main
\* Python's a % b for b # 0: the result has the sign of b
PyMod(a, b) == IF b > 0 THEN a % b ELSE 0 - ((0 - a) % (0 - b))

\* a check that lets a burst as long as the interval through
DurationLonger(d, i) == d > i

\* if self.audio.burst_duration >= self.audio.burst_interval
DurationTooLong(d, i) == d >= i

\* if self.ptp.domain < 0 or self.ptp.domain > 255 (and priority)
OutOfByte(x) == x < 0 \/ x > 255

\* Config.validate(), statement by statement: what the call does
ValidateOutcome(c) ==
    IF c.tone_frequency = 0 THEN "ZeroDivisionError"     \* sample_rate % 0
    ELSE IF PyMod(c.sample_rate, c.tone_frequency) # 0 THEN "ValueError"
    ELSE IF c.burst_duration <= 0 \/ c.burst_interval <= 0 THEN "ValueError"
    ELSE IF DurationTooLong(c.burst_duration, c.burst_interval) THEN "ValueError"
    ELSE IF OutOfByte(c.domain) THEN "ValueError"
    ELSE IF OutOfByte(c.priority) THEN "ValueError"
    ELSE "True"

\* the values a configuration file can carry in the validated fields
\* (Config.from_file copies them unchecked); durations in ticks
SampleRates == {0 - 8, 0, 8, 12}
ToneFrequencies == {0 - 4, 0, 1, 4, 5}
BurstDurations == {0 - 1, 0, 1, 3, 4}
BurstIntervals == {0, 3, 4}
ByteValues == {0 - 1, 0, 255, 256}
Configs ==
    [sample_rate : SampleRates, tone_frequency : ToneFrequencies,
     burst_duration : BurstDurations, burst_interval : BurstIntervals,
     domain : ByteValues, priority : ByteValues]
DefaultConfig ==
    [sample_rate |-> 8, tone_frequency |-> 1, burst_duration |-> 1,
     burst_interval |-> 4, domain |-> 0, priority |-> 0]

\* main() has not loaded a configuration
MainInit ==
    /\ cfg = DefaultConfig
    /\ validated = "none"
    /\ mainPc = "start"
    /\ twin = <<>>
    /\ script = NoScript

\* the configuration file holds any of the values
ConfigInit ==
    /\ cfg \in Configs
    /\ validated = "none"
    /\ mainPc = "start"
    /\ twin = <<>>
    /\ script = NoScript

\* a client calls cfg.validate()
Validate ==
    /\ validated' = ValidateOutcome(cfg)
    /\ UNCHANGED <<recent, script, clock, ptpOffset, period, cfg, mainPc, twin, capRes, oldLoop,
                   mgrVars, genVars, capVars>>

\* main(): cfg = Config.from_file(config_path); a missing key or an
\* unreadable file raises ValueError and main exits with status 1
MainFromFile ==
    /\ mainPc = "start"
    /\ \E ok \in BOOLEAN : mainPc' = IF ok THEN "loaded" ELSE "exit"
    /\ UNCHANGED <<recent, script, clock, ptpOffset, period, cfg, validated, twin, capRes, oldLoop,
                   mgrVars, genVars, capVars>>

\* main(): setup_logging, then run_generator(cfg) / run_capture(cfg) /
\* run_dashboard(cfg) by role
MainRunRole ==
    /\ mainPc = "loaded"
    /\ \E role \in {"run_generator", "run_capture", "run_dashboard"} :
          mainPc' = role
    /\ UNCHANGED <<recent, script, clock, ptpOffset, period, cfg, validated, twin, capRes, oldLoop,
                   mgrVars, genVars, capVars>>

\* ----------------------------------------------------- PTPTimeManager
\* a probe that takes any parsable clock class for synchronized
CheckPtpSyncAnyClass(o) == o.pgrep = "ok" /\ o.pmc = "class"

\* _check_ptp_sync: the value it leaves in _ptp_sync
CheckPtpSync(o) ==
    IF o.pgrep \in {"timeout", "error"} THEN FALSE      \* except handlers
    ELSE IF o.pgrep # "ok" THEN FALSE                   \* returncode != 0
    ELSE IF o.pmc \in {"timeout", "error"} THEN FALSE   \* except handlers
    ELSE IF o.pmc = "class" THEN o.cls \in SyncClasses  \* clock_class in [6, 7]
    ELSE FALSE                                          \* could not determine

\* a probe that fails: dead daemon, timeout, missing or unparsable output
ProbeFailed(o) == o.pgrep # "ok" \/ o.pmc # "class"

\* a manager that remembers only the probes that did not fail
LastSyncCheckIfAnswered(now, last, o) == IF ProbeFailed(o) THEN last ELSE now

\* self._last_sync_check = current_time, after _check_ptp_sync returned
LastSyncCheckAfter(now, last, o) == now

\* a re-probe as soon as the interval is reached
SyncCheckDueInclusive(now, last) == FSub(now, last) >= SyncCheckInterval

\* the condition under which the sync status is re-probed
SyncCheckDue(now, last) == FSub(now, last) > SyncCheckInterval

\* a handler for the timeout alone
CaughtTimeoutOnly(exc) == exc = "timeout"

\* the exceptions get_ptp_time's handlers catch:
\* except subprocess.TimeoutExpired / except Exception
Caught(exc) == exc \in {"timeout", "error"}

\* get_ptp_time called when the local clock shows now, with manager state
\* (sync, last); o is what a probe would find, q what phc_ctl answers, d the
\* time that passes during the call
GetPtpTimeCall(now, sync, last, o, q, d) ==
    LET due   == SyncCheckDue(now, last)
        sync1 == IF due THEN CheckPtpSync(o) ELSE sync
        last1 == IF due THEN LastSyncCheckAfter(now, last, o) ELSE last
        now1  == Round(now + d)
        asked == sync1
        exc   == IF asked /\ q \in {"timeout", "error"} THEN q ELSE "none"
        isRef == asked /\ q = "time"
    IN [op     |-> "get_ptp_time",
        at     |-> now,
        probed |-> due,
        probe  |-> IF due THEN o ELSE NoProbe,
        query  |-> IF asked THEN q ELSE "skipped",
        raised |-> exc # "none" /\ ~Caught(exc),
        ret    |-> IF isRef THEN PtpNow(now1)
                   ELSE IF exc # "none" /\ ~Caught(exc) THEN NoneVal
                   ELSE now1,
        src    |-> IF isRef THEN "ptp"
                   ELSE IF exc # "none" /\ ~Caught(exc) THEN "none"
                   ELSE "local",
        flag   |-> sync1,
        sync   |-> sync1,
        last   |-> last1,
        prevSync |-> sync,
        prevLast |-> last,
        now    |-> now1,
        offset |-> 0,
        absent |-> FALSE,
        afterFailure |-> FALSE]

\* is_synchronized called when the local clock shows now
IsSynchronizedCall(now, sync, last, o, d) ==
    LET due   == SyncCheckDue(now, last)
        sync1 == IF due THEN CheckPtpSync(o) ELSE sync
        last1 == IF due THEN LastSyncCheckAfter(now, last, o) ELSE last
    IN [op     |-> "is_synchronized",
        at     |-> now,
        probed |-> due,
        probe  |-> IF due THEN o ELSE NoProbe,
        query  |-> "skipped",
        raised |-> FALSE,
        ret    |-> NoneVal,
        src    |-> "none",
        flag   |-> sync1,
        sync   |-> sync1,
        last   |-> last1,
        prevSync |-> sync,
        prevLast |-> last,
        now    |-> Round(now + d),
        offset |-> 0,
        absent |-> FALSE,
        afterFailure |-> FALSE]

NoCall == [op |-> "none", at |-> 0, probed |-> FALSE,
           probe |-> NoProbe, query |-> "skipped", raised |-> FALSE,
           ret |-> NoneVal, src |-> "none", flag |-> FALSE, sync |-> FALSE,
           last |-> 0, prevSync |-> FALSE, prevLast |-> 0, now |-> 0,
           offset |-> 0, absent |-> FALSE, afterFailure |-> FALSE]

\* what a probe can find when the manager is called at local time now
ProbesFor(now, last) ==
    IF SyncCheckDue(now, last) THEN ProbeOutcomes ELSE {NoProbe}

\* every way a get_ptp_time call made at local time now can go, over what
\* the probe finds, what phc_ctl answers and how long the call takes
GetPtpTimeCalls(now, sync, last, D) ==
    {GetPtpTimeCall(now, sync, last, o, q, d) :
        o \in ProbesFor(now, last), q \in PhcOutcomes, d \in D}

\* every way an is_synchronized call made at local time now can go
IsSynchronizedCalls(now, sync, last, D) ==
    {IsSynchronizedCall(now, sync, last, o, d) :
        o \in ProbesFor(now, last), d \in D}

\* the record of call r, with whether the probe the flag comes from failed
Remember(r) ==
    [r EXCEPT !.afterFailure = IF r.probed THEN ProbeFailed(r.probe)
                               ELSE call.afterFailure]

\* the effect of one manager call r on the manager's state and the clock
Commit(r) ==
    /\ r.now \in ClockValues
    /\ clock' = r.now
    /\ ptpSync' = r.sync
    /\ lastSyncCheck' = r.last
    /\ flagAsOf' = IF r.probed THEN r.at ELSE flagAsOf
    /\ call' = Remember(r)
    /\ thr' = thr

\* __init__: _ptp_sync = False, _last_sync_check = 0
MgrInit ==
    /\ clock = Epoch
    /\ ptpOffset \in PtpOffsets
    /\ ptpSync = FALSE
    /\ lastSyncCheck = InitialLastSyncCheck
    /\ flagAsOf = clock
    /\ call = NoCall
    /\ thr = [t \in Threads |-> NoThread]

\* the local clock advances between calls
Tick ==
    /\ \E s \in TickSteps :
          /\ Round(clock + s) \in ClockValues
          /\ clock' = Round(clock + s)
    /\ UNCHANGED <<ptpOffset, period, otherVars, capVars, mgrVars, genVars>>

GetPtpTime ==
    /\ \E r \in GetPtpTimeCalls(clock, ptpSync, lastSyncCheck, Elapse) :
          Commit(r)
    /\ UNCHANGED <<ptpOffset, period, otherVars, capVars, genVars>>

IsSynchronized ==
    /\ \E r \in IsSynchronizedCalls(clock, ptpSync, lastSyncCheck, Elapse) :
          Commit(r)
    /\ UNCHANGED <<ptpOffset, period, otherVars, capVars, genVars>>

\* calculate_offset: get_timestamp reads the PTP time (r) and then the
\* system time (sys); the result is absent when the PTP time is None
CalculateOffsetCall(r, sys) ==
    [r EXCEPT !.op = "calculate_offset",
              !.now = sys,
              !.absent = (r.ret = NoneVal),
              !.offset = IF r.ret = NoneVal THEN 0 ELSE FSub(r.ret, sys)]

CalculateOffsetQuery ==
    /\ \E r \in GetPtpTimeCalls(clock, ptpSync, lastSyncCheck, Elapse), e \in Elapse :
          \E sys \in {Round(r.now + e)} :
             /\ sys \in ClockValues
             /\ clock' = sys
             /\ ptpSync' = r.sync
             /\ lastSyncCheck' = r.last
             /\ flagAsOf' = IF r.probed THEN r.at ELSE flagAsOf
             /\ call' = Remember(CalculateOffsetCall(r, sys))
    /\ UNCHANGED <<ptpOffset, period, otherVars, capVars, genVars, thr>>

\* The refresh at the head of get_ptp_time and of is_synchronized, step by
\* step, for a thread t. No lock is taken anywhere in PTPTimeManager.
\* current_time = time.time();
\* if current_time - self._last_sync_check > self._sync_check_interval:
RefreshEnter(t) ==
    /\ thr[t].pc = "idle"
    /\ thr' = [thr EXCEPT ![t] =
                  [pc |-> IF SyncCheckDue(clock, lastSyncCheck)
                          THEN "probing" ELSE "return",
                   now |-> clock,
                   seen |-> lastSyncCheck]]
    /\ UNCHANGED <<clock, ptpOffset, period, otherVars, capVars, genVars, ptpSync,
                   lastSyncCheck, flagAsOf, call>>

\* self._check_ptp_sync(): pgrep and pmc have run, _ptp_sync is assigned
RefreshProbe(t) ==
    /\ thr[t].pc = "probing"
    /\ \E o \in ProbeOutcomes : ptpSync' = CheckPtpSync(o)
    /\ flagAsOf' = thr[t].now
    /\ thr' = [thr EXCEPT ![t].pc = "probed"]
    /\ UNCHANGED <<clock, ptpOffset, period, otherVars, capVars, genVars, lastSyncCheck,
                   call>>

\* self._last_sync_check = current_time
RefreshSetLast(t) ==
    /\ thr[t].pc = "probed"
    /\ lastSyncCheck' = thr[t].now
    /\ thr' = [thr EXCEPT ![t].pc = "return"]
    /\ UNCHANGED <<clock, ptpOffset, period, otherVars, capVars, genVars, ptpSync,
                   flagAsOf, call>>

\* the rest of the call: _ptp_sync is read and the call returns
RefreshReturn(t) ==
    /\ thr[t].pc = "return"
    /\ thr' = [thr EXCEPT ![t] = NoThread]
    /\ UNCHANGED <<clock, ptpOffset, period, otherVars, capVars, genVars, ptpSync,
                   lastSyncCheck, flagAsOf, call>>

\* ----------------------------------------------------- AudioGenerator
\* a scheduler that waits one period from the moment it looks at the clock
NextBoundaryFromNow(t, P) == FAdd(t, P)

\* next_burst = (time_since_epoch // burst_interval + 1) * burst_interval
NextBoundary(t, P) == FMul(FAdd(FloorDiv(t, P), 1), P)

\* wait_time = next_burst - time_since_epoch
WaitTime(t, P) == FSub(NextBoundary(t, P), t)

\* time_since_epoch // burst_interval raises ZeroDivisionError for a
\* burst_interval of 0 (Config.from_file does not validate what it loads)
WaitRaises(P) == P = 0

NoWait == [computed |-> FALSE, reading |-> 0, nextBurst |-> 0, waitTime |-> 0,
           slept |-> FALSE, iter |-> 0, raised |-> FALSE]

\* where the loop thread is: not created, inside _run's loop, inside the
\* finally clause's _stop_vlc, or ended
LoopPcs == {"loop", "sleeping", "check"}
ShutdownPcs == {"sv_if", "sv_terminate", "sv_wait", "sv_kill", "sv_clear"}
EndedPcs == {"done", "died"}

\* stop() and _stop_vlc() run the same statements on self._vlc_process,
\* each of which reads the attribute again:
\*   if self._vlc_process:
\*       try: self._vlc_process.terminate(); self._vlc_process.wait(timeout=5)
\*       except subprocess.TimeoutExpired: self._vlc_process.kill()
\*       finally: self._vlc_process = None
\* ShutdownSteps is the set of places the statement at pc can lead to when
\* the attribute is (not) None: the next statement, "end" after the last
\* one, or "raise" for the AttributeError of a call on None, which only the
\* finally clause handles
ShutdownSteps(pc, handle) ==
    IF pc = "sv_if" THEN {IF handle THEN "sv_terminate" ELSE "end"}
    ELSE IF pc = "sv_terminate" THEN {IF handle THEN "sv_wait" ELSE "raise"}
    ELSE IF pc = "sv_wait" THEN (IF handle THEN {"sv_clear", "sv_kill"} ELSE {"raise"})
    ELSE IF pc = "sv_kill" THEN {IF handle THEN "sv_clear" ELSE "raise"}
    ELSE {"end"}

\* the handle after the statement at pc has led to n
HandleAfter(pc, n, handle) ==
    IF pc = "sv_clear" \/ n = "raise" THEN FALSE ELSE handle

\* self._thread.join(timeout=5), in ticks
JoinTimeout == 5 * TicksPerSecond

\* a burst_interval longer than the join timeout (60.25 s), whose first
\* boundary after the start lies among the clock readings followed
LongPeriod == SyncCheckInterval + 1

\* no thread of an earlier start() is left
NoOldLoop == [pc |-> "none", wakeAt |-> 0, triggers |-> 0]

\* __init__: _running = False, _thread = None, _vlc_process = None
GenInit ==
    /\ genRunning = FALSE
    /\ genPc = "idle"
    /\ vlcProcess = FALSE
    /\ wait = NoWait
    /\ wakeAt = 0
    /\ triggers = 0
    /\ targets = <<>>
    /\ stopPc = "idle"
    /\ stopAt = NoneVal
    /\ oldLoop = NoOldLoop

\* start(): returns at once when already running, else sets _running and
\* starts the thread that runs _run
GenStart ==
    /\ ~genRunning
    /\ genPc = "idle"
    /\ stopPc = "idle"
    /\ genRunning' = TRUE
    /\ genPc' = "start_vlc"
    /\ UNCHANGED <<clock, ptpOffset, period, otherVars, capVars, mgrVars, vlcProcess,
                   wait, wakeAt, triggers, targets, stopPc, stopAt>>

\* _run: _start_vlc(); a failure of Popen is re-raised, caught by _run's
\* handler, and the finally clause runs _stop_vlc
GenStartVlc ==
    /\ genPc = "start_vlc"
    /\ \E ok \in BOOLEAN :
          /\ vlcProcess' = IF ok THEN TRUE ELSE vlcProcess
          /\ genPc' = IF ok THEN "loop" ELSE "sv_if"
    /\ UNCHANGED <<clock, ptpOffset, period, otherVars, capVars, mgrVars, genRunning,
                   wait, wakeAt, triggers, targets, stopPc, stopAt>>

\* _run: while self._running: self._wait_for_next_burst(), up to the start
\* of time.sleep; an exception leaves the loop for _run's handler and the
\* finally clause
GenWaitBegin ==
    /\ genPc = "loop"
    /\ genRunning
    /\ triggers < MaxBursts
    /\ \E r \in GetPtpTimeCalls(clock, ptpSync, lastSyncCheck, Elapse) :
          /\ Commit(r)
          /\ IF r.raised \/ (r.ret # NoneVal /\ WaitRaises(period))
             THEN /\ wait' = [NoWait EXCEPT !.iter = triggers, !.raised = TRUE]
                  /\ wakeAt' = wakeAt
                  /\ genPc' = "sv_if"
             ELSE IF r.ret = NoneVal
             THEN /\ wait' = [NoWait EXCEPT !.iter = triggers, !.slept = TRUE]
                  /\ wakeAt' = r.now + FallbackSleep
                  /\ genPc' = "sleeping"
             ELSE \E nb \in {NextBoundary(r.ret, period)},
                     wt \in {WaitTime(r.ret, period)} :
                  /\ wait' = [computed |-> TRUE, reading |-> r.ret,
                              nextBurst |-> nb, waitTime |-> wt,
                              slept |-> wt > 0, iter |-> triggers,
                              raised |-> FALSE]
                  /\ wakeAt' = IF wt > 0 THEN r.now + wt ELSE wakeAt
                  /\ genPc' = IF wt > 0 THEN "sleeping" ELSE "check"
    /\ UNCHANGED <<ptpOffset, period, otherVars, capVars, genRunning, vlcProcess,
                   triggers, targets, stopPc, stopAt>>

\* time.sleep returns: at least the requested time has passed, whether or
\* not stop() was called meanwhile
GenWake ==
    /\ genPc = "sleeping"
    /\ \E j \in Elapse :
          LET c == Round((IF wakeAt > clock THEN wakeAt ELSE clock) + j)
          IN /\ c \in ClockValues
             /\ clock' = c
    /\ genPc' = "check"
    /\ UNCHANGED <<ptpOffset, period, otherVars, capVars, mgrVars, genRunning,
                   vlcProcess, wait, wakeAt, triggers, targets, stopPc, stopAt>>

\* a loop that triggers as soon as it finds _running set
GenTriggerWithoutWait ==
    /\ genPc = "loop"
    /\ genRunning
    /\ triggers < MaxBursts
    /\ \E r \in GetPtpTimeCalls(clock, ptpSync, lastSyncCheck, Elapse) :
          Commit(r)
    /\ triggers' = triggers + 1
    /\ targets' = Append(targets, wait.nextBurst)
    /\ genPc' = "loop"
    /\ UNCHANGED <<ptpOffset, period, otherVars, capVars, genRunning, vlcProcess, wait,
                   wakeAt, stopPc, stopAt>>

\* _run: if not self._running: break, else _trigger_burst(), whose
\* get_timestamp reads the PTP time and then the system time
GenTrigger ==
    /\ genPc = "check"
    /\ genRunning
    /\ \E r \in GetPtpTimeCalls(clock, ptpSync, lastSyncCheck, Elapse) :
          Commit(r)
    /\ triggers' = triggers + 1
    /\ targets' = Append(targets, IF wait.computed THEN wait.nextBurst ELSE NoneVal)
    /\ genPc' = "loop"
    /\ UNCHANGED <<ptpOffset, period, otherVars, capVars, genRunning, vlcProcess, wait,
                   wakeAt, stopPc, stopAt>>

\* _run: the loop ends (while condition or break); finally: _stop_vlc()
GenLoopExit ==
    /\ genPc \in {"loop", "check"}
    /\ ~genRunning
    /\ genPc' = "sv_if"
    /\ UNCHANGED <<clock, ptpOffset, period, otherVars, capVars, mgrVars, genRunning,
                   vlcProcess, wait, wakeAt, triggers, targets, stopPc, stopAt>>

\* _stop_vlc(), one statement at a time, in the loop thread; an
\* AttributeError leaves _run and ends the thread
GenStopVlc ==
    /\ genPc \in ShutdownPcs
    /\ \E n \in ShutdownSteps(genPc, vlcProcess) :
          /\ genPc' = IF n = "end" THEN "done"
                      ELSE IF n = "raise" THEN "died" ELSE n
          /\ vlcProcess' = HandleAfter(genPc, n, vlcProcess)
    /\ UNCHANGED <<clock, ptpOffset, period, otherVars, capVars, mgrVars, genRunning,
                   wait, wakeAt, triggers, targets, stopPc, stopAt>>

\* stop(): self._running = False
GenStop ==
    /\ stopPc = "idle"
    /\ genRunning' = FALSE
    /\ stopPc' = "sv_if"
    /\ stopAt' = IF genRunning THEN clock ELSE stopAt
    /\ UNCHANGED <<clock, ptpOffset, period, otherVars, capVars, mgrVars, genPc,
                   vlcProcess, wait, wakeAt, triggers, targets>>

\* stop(): the statements on self._vlc_process, one at a time, in the
\* calling thread; an AttributeError propagates to the caller of stop()
GenStopShutdown ==
    /\ stopPc \in ShutdownPcs
    /\ \E n \in ShutdownSteps(stopPc, vlcProcess) :
          /\ stopPc' = IF n = "end" THEN "join"
                       ELSE IF n = "raise" THEN "raised" ELSE n
          /\ vlcProcess' = HandleAfter(stopPc, n, vlcProcess)
    /\ UNCHANGED <<clock, ptpOffset, period, otherVars, capVars, mgrVars, genRunning,
                   genPc, wait, wakeAt, triggers, targets, stopAt>>

\* stop(): if self._thread: self._thread.join(timeout=5); the thread ends
\* within the timeout, its longest sleep being one period
GenStopJoin ==
    /\ stopPc = "join"
    /\ genPc \in {"idle"} \cup EndedPcs
    /\ stopPc' = "idle"
    /\ UNCHANGED <<clock, ptpOffset, period, otherVars, capVars, mgrVars, genRunning,
                   genPc, vlcProcess, wait, wakeAt, triggers, targets, stopAt>>

\* get_status()['running']: self._running
GetStatusRunning == genRunning

\* stop(): self._thread.join(timeout=5) returns after 5 seconds while the
\* loop thread is still in time.sleep
GenStopJoinTimesOut ==
    /\ stopPc = "join"
    /\ genPc = "sleeping"
    /\ wakeAt > clock + JoinTimeout
    /\ clock' = clock + JoinTimeout
    /\ stopPc' = "idle"
    /\ UNCHANGED <<ptpOffset, period, otherVars, capVars, mgrVars, genRunning,
                   genPc, vlcProcess, wait, wakeAt, triggers, targets, stopAt>>

\* start() after a stop(): _running is False, so _running = True and a new
\* thread runs _run; a thread the join left sleeping is still there
GenRestart ==
    /\ ~genRunning
    /\ stopPc = "idle"
    /\ genPc \in EndedPcs \cup {"sleeping"}
    /\ oldLoop = NoOldLoop
    /\ genRunning' = TRUE
    /\ oldLoop' = IF genPc = "sleeping"
                  THEN [pc |-> "sleeping", wakeAt |-> wakeAt, triggers |-> 0]
                  ELSE oldLoop
    /\ genPc' = "start_vlc"
    /\ wait' = NoWait
    /\ UNCHANGED <<recent, script, clock, ptpOffset, period, cfg, validated, mainPc, twin,
                   capRes, capVars, mgrVars, vlcProcess, wakeAt, triggers,
                   targets, stopPc, stopAt>>

\* time.sleep returns in the thread left behind
OldLoopWake ==
    /\ oldLoop.pc = "sleeping"
    /\ \E c \in {IF oldLoop.wakeAt > clock THEN oldLoop.wakeAt ELSE clock} :
          /\ c \in ClockValues
          /\ clock' = c
    /\ oldLoop' = [oldLoop EXCEPT !.pc = "check"]
    /\ UNCHANGED <<recent, script, ptpOffset, period, cfg, validated, mainPc, twin, capRes,
                   capVars, mgrVars, genVars>>

\* _run in the thread left behind: _running is set (by the later start()),
\* so it calls _trigger_burst() and goes round the loop
OldLoopTrigger ==
    /\ oldLoop.pc = "check"
    /\ genRunning
    /\ \E r \in GetPtpTimeCalls(clock, ptpSync, lastSyncCheck, Elapse) :
          Commit(r)
    /\ oldLoop' = [oldLoop EXCEPT !.pc = "loop", !.triggers = @ + 1]
    /\ UNCHANGED <<recent, script, ptpOffset, period, cfg, validated, mainPc, twin, capRes,
                   capVars, genVars>>

\* _run in the thread left behind: if not self._running: break, then the
\* finally clause's _stop_vlc()
OldLoopExit ==
    /\ oldLoop.pc = "check"
    /\ ~genRunning
    /\ oldLoop' = [oldLoop EXCEPT !.pc = "done"]
    /\ vlcProcess' = FALSE
    /\ UNCHANGED <<recent, script, clock, ptpOffset, period, cfg, validated, mainPc, twin,
                   capRes, capVars, mgrVars, genRunning, genPc, wait, wakeAt,
                   triggers, targets, stopPc, stopAt>>


\* ----------------------------------------------------- AudioCapture
\* a window counts as a hit from the threshold on
IsRawHitInclusive(m) == m >= DetectionThreshold

\* if normalized_magnitude > self._detection_threshold
IsRawHit(m) == m > DetectionThreshold

\* a hit is accepted when it is far enough from the last one either way
GapPassedEitherWay(t, last) ==
    FSub(t, last) > MinBurstGap \/ FSub(last, t) > MinBurstGap

\* a hit is accepted from the minimum gap on
GapPassedInclusive(t, last) == FSub(t, last) >= MinBurstGap

\* if current_time - self._last_burst_time > self._min_burst_gap
GapPassed(t, last) == FSub(t, last) > MinBurstGap

\* a debounce timer that moves only when the record reached the sink
LastBurstTimeIfWritten(t, last, w) == IF w = "failed" THEN last ELSE t

\* _process_audio_chunk: _detect_burst(current_time, m) handles its own
\* failures and those of the sink (write outcome w), and then
\* self._last_burst_time = current_time
LastBurstTimeAfter(t, last, w) == t

\* _send_to_influxdb: no write without a write API; a write that raises is
\* logged
WriteOutcome(failed, api, ok) ==
    IF failed THEN "none"
    ELSE IF ~api THEN "noapi"
    ELSE IF ok THEN "ok" ELSE "failed"

\* ptp_offset = ptp_time - system_time (calculate_offset)
CalculateOffset(ptp, sys) == FSub(ptp, sys)

\* _calculate_expected_burst_time:
\* next_burst = (ptp_time // burst_interval + 1) * burst_interval
NextBurst(ptp, P) == FMul(FAdd(FloorDiv(ptp, P), 1), P)

\* ptp_time // burst_interval raises ZeroDivisionError for a burst_interval
\* of 0; _calculate_expected_burst_time catches it and returns None
ExpectedIsNone(P) == P = 0

\* the conversion with the offset added instead of subtracted
ExpectedBurstTimeAdded(ptp, P, off) == FAdd(NextBurst(ptp, P), off)

\* _calculate_expected_burst_time: next_burst - ptp_offset
ExpectedBurstTime(ptp, P, off) == FSub(NextBurst(ptp, P), off)

\* latency = (detection_time - expected_burst_time) * 1000
LatencyMs(det, expected) == FMul(FSub(det, expected), 1000)

NoChunk == [mag |-> 0, answer |-> "none", at |-> NoneVal,
            prevLast |-> 0, accepted |-> FALSE, queries |-> 0,
            write |-> "none"]

\* the start of the slice lst[-count:] in a list of n elements: -0 is 0,
\* and a negative start counts from the end, not before the first element
SliceStart(n, count) ==
    IF count = 0 THEN 0
    ELSE IF n - count < 0 THEN 0 ELSE n - count

\* get_recent_bursts:
\* self._detected_bursts[-count:] if self._detected_bursts else []
GetRecentBursts(hist, count) ==
    IF hist = <<>> THEN <<>>
    ELSE SubSeq(hist, SliceStart(Len(hist), count) + 1, Len(hist))

\* the counts asked for: none, fewer than, as many as and more than the
\* history holds
Counts == 0 .. MaxHistory + 1

\* no get_recent_bursts call yet
NoQuery == [count |-> NoneVal, ret |-> <<>>]

\* __init__: self._audio = None, self._stream = None, self._thread = None
NoResources == [audio |-> FALSE, stream |-> FALSE, thread |-> FALSE,
                failedAt |-> "none"]

\* the calls of start() that can raise before _running is set
StartFailures == {"PyAudio", "open", "start_stream"}

\* a stop() that returns at once when the capture is not running
ReleasedIfRunning(res, running) ==
    IF running THEN [res EXCEPT !.audio = FALSE, !.stream = FALSE] ELSE res

\* stop(): if self._stream: ... self._stream = None;
\* if self._audio: ... self._audio = None
ReleasedByStop(res, running) == [res EXCEPT !.audio = FALSE, !.stream = FALSE]

\* __init__ and _init_influxdb: the connection to the sink is there or not
CapInit ==
    /\ capRunning = FALSE
    /\ capPc = "init"
    /\ streamActive = FALSE
    /\ writeApi \in BOOLEAN
    /\ lastBurstTime = 0
    /\ detectedBursts = <<>>
    /\ sink = <<>>
    /\ chunk = NoChunk
    /\ capRes = NoResources
    /\ recent = NoQuery

\* start(): pyaudio.PyAudio() and _start_audio_stream(); from
\* stream.start_stream() on the backend delivers callbacks
CapStartStream ==
    /\ capPc = "init"
    /\ ~capRunning
    /\ capPc' = "stream_started"
    /\ streamActive' = TRUE
    /\ capRes' = [capRes EXCEPT !.audio = TRUE, !.stream = TRUE]
    /\ UNCHANGED <<recent, script, clock, ptpOffset, period, cfg, validated, mainPc, twin,
                   oldLoop, mgrVars, genVars, capRunning,
                   writeApi, lastBurstTime, detectedBursts, sink, chunk>>

\* start(): pyaudio.PyAudio(), _audio.open() or _stream.start_stream()
\* raises; _start_audio_stream and start log and re-raise, and run_capture
\* is left through its finally clause
CapStartFails ==
    /\ capPc = "init"
    /\ ~capRunning
    /\ \E at \in StartFailures :
          capRes' = [capRes EXCEPT !.audio = at # "PyAudio",
                                   !.stream = at = "start_stream",
                                   !.failedAt = at]
    /\ capPc' = "start_failed"
    /\ UNCHANGED <<recent, script, clock, ptpOffset, period, cfg, validated, mainPc, twin,
                   oldLoop, mgrVars, genVars, capRunning, streamActive,
                   writeApi, lastBurstTime, detectedBursts, sink, chunk>>

\* start(): self._running = True and the capture thread is started
CapStartFinish ==
    /\ capPc = "stream_started"
    /\ capPc' = "started"
    /\ capRunning' = TRUE
    /\ capRes' = [capRes EXCEPT !.thread = TRUE]
    /\ UNCHANGED <<recent, script, clock, ptpOffset, period, cfg, validated, mainPc, twin,
                   oldLoop, mgrVars, genVars, streamActive,
                   writeApi, lastBurstTime, detectedBursts, sink, chunk>>

\* stop(), called by run_capture's finally clause: _running = False, the
\* stream is stopped and closed, the backend terminated
CapStop ==
    /\ \/ capPc = "started" /\ capRunning
       \/ capPc = "start_failed"
    /\ capRunning' = FALSE
    /\ streamActive' = FALSE
    /\ capRes' = ReleasedByStop(capRes, capRunning)
    /\ capPc' = "stopped"
    /\ UNCHANGED <<recent, script, clock, ptpOffset, period, cfg, validated, mainPc, twin,
                   oldLoop, mgrVars, genVars,
                   writeApi, lastBurstTime, detectedBursts, sink, chunk>>

\* get_recent_bursts(count), from any thread
GetRecentBurstsQuery ==
    /\ \E count \in Counts :
          recent' = [count |-> count,
                     ret |-> GetRecentBursts(detectedBursts, count)]
    /\ UNCHANGED <<clock, ptpOffset, period, cfg, validated, mainPc, twin,
                   capRes, oldLoop, script, mgrVars, genVars, capVars>>

\* the local clock advances until the backend has the next window
CapTick ==
    /\ streamActive
    /\ Round(clock + 1) \in CapClockValues
    /\ clock' = Round(clock + 1)
    /\ chunk' = NoChunk
    /\ UNCHANGED <<ptpOffset, period, otherVars, mgrVars, genVars, capRunning, capPc,
                   streamActive, writeApi, lastBurstTime, detectedBursts, sink>>

\* the local clock is set back (time.time() is not monotonic) between two
\* windows
CapClockStepBack ==
    /\ streamActive
    /\ \E s \in BackSteps :
          /\ clock - s \in CapClockValues
          /\ clock' = clock - s
    /\ chunk' = NoChunk
    /\ UNCHANGED <<ptpOffset, period, otherVars, mgrVars, genVars, capRunning, capPc,
                   streamActive, writeApi, lastBurstTime, detectedBursts, sink>>

\* _audio_callback while _running is False: the stream is told to finish
CallbackNotRunning ==
    /\ streamActive
    /\ ~capRunning
    /\ \E m \in Magnitudes :
          chunk' = [NoChunk EXCEPT !.mag = m,
                                   !.answer = "complete",
                                   !.prevLast = lastBurstTime]
    /\ streamActive' = FALSE
    /\ UNCHANGED <<clock, ptpOffset, period, otherVars, mgrVars, genVars, capRunning,
                   capPc, writeApi, lastBurstTime, detectedBursts, sink>>

\* a callback whose discarded raw hits restart the debounce timer
CallbackNoBurstExtending ==
    /\ streamActive
    /\ capRunning
    /\ \E m \in Magnitudes :
          /\ ~(IsRawHit(m) /\ GapPassed(clock, lastBurstTime))
          /\ lastBurstTime' = IF IsRawHit(m) THEN clock ELSE lastBurstTime
          /\ chunk' = [NoChunk EXCEPT !.mag = m,
                                      !.answer = "continue",
                                      !.at = IF IsRawHit(m) THEN clock ELSE NoneVal,
                                      !.prevLast = lastBurstTime]
    /\ UNCHANGED <<clock, ptpOffset, period, otherVars, mgrVars, genVars, capRunning,
                   capPc, streamActive, writeApi, detectedBursts, sink>>

\* _audio_callback -> _process_audio_chunk for a window that is no hit, or
\* a hit that comes too soon after the last accepted one
CallbackNoBurst ==
    /\ streamActive
    /\ capRunning
    /\ \E m \in Magnitudes :
          /\ ~(IsRawHit(m) /\ GapPassed(clock, lastBurstTime))
          /\ chunk' = [NoChunk EXCEPT !.mag = m,
                                      !.answer = "continue",
                                      !.at = IF IsRawHit(m) THEN clock ELSE NoneVal,
                                      !.prevLast = lastBurstTime]
    /\ UNCHANGED <<clock, ptpOffset, period, otherVars, mgrVars, genVars, capRunning,
                   capPc, streamActive, writeApi, lastBurstTime,
                   detectedBursts, sink>>

\* _detect_burst: the record built for a hit of magnitude m detected at t,
\* from get_timestamp (g1), the get_ptp_time of
\* _calculate_expected_burst_time (g2) and its calculate_offset (g3)
BurstRecord(t, m, g1, g2, g3, P) ==
    LET off == CalculateOffset(g3.ret, g3.now)
        expected == ExpectedBurstTime(g2.ret, P, off)
    IN [ptp_time |-> g1.ret,
        system_time |-> g1.now,
        detection_time |-> t,
        expected_time |-> expected,
        latency_ms |-> LatencyMs(t, expected),
        magnitude |-> m,
        src |-> g1.src,
        refTime |-> g2.ret,
        refSrc |-> g2.src,
        expectedRef |-> NextBurst(g2.ret, P),
        offset |-> off,
        offSrc |-> g3.src]

\* every record _detect_burst can build from one state of the manager, over
\* what its three clock queries find
BurstRecords(t, m, sync, last, P) ==
    UNION {UNION {{BurstRecord(t, m, g1, g2, g3, P) :
                     g3 \in GetPtpTimeCalls(g2.now, g2.sync, g2.last, {0})} :
                  g2 \in GetPtpTimeCalls(g1.now, g1.sync, g1.last, {0})} :
           g1 \in GetPtpTimeCalls(t, sync, last, {0})}

\* _detect_burst executed twice from the same state, for the same hit
DetectBurstTwice ==
    /\ twin = <<>>
    /\ \E m \in {x \in Magnitudes : IsRawHit(x)} :
       \E a, b \in BurstRecords(clock, m, ptpSync, lastSyncCheck, period) :
          twin' = <<a, b>>
    /\ UNCHANGED <<recent, script, clock, ptpOffset, period, cfg, validated, mainPc, capRes, oldLoop,
                   mgrVars, genVars, capVars>>

\* _audio_callback -> _process_audio_chunk -> _detect_burst for an accepted
\* hit: get_timestamp, _calculate_expected_burst_time (get_ptp_time and
\* calculate_offset), the record, _send_to_influxdb (is_synchronized for
\* the ptp_sync tag, then the write), and _last_burst_time = current_time
CallbackBurst ==
    /\ streamActive
    /\ capRunning
    /\ Len(detectedBursts) < MaxHistory
    /\ GapPassed(clock, lastBurstTime)
    /\ \E m \in {x \in Magnitudes : IsRawHit(x)}, writeOk \in BOOLEAN :
       \E g1 \in GetPtpTimeCalls(clock, ptpSync, lastSyncCheck, {0}) :
       \E g2 \in GetPtpTimeCalls(g1.now, g1.sync, g1.last, {0}) :
       \E g3 \in GetPtpTimeCalls(g2.now, g2.sync, g2.last, {0}) :
       \E g4 \in IsSynchronizedCalls(g3.now, g3.sync, g3.last, {0}) :
       \E failed \in {g1.raised \/ g2.raised \/ g3.raised
                         \/ ExpectedIsNone(period)} :
       \E gEnd \in {IF ExpectedIsNone(period) THEN g2
                    ELSE IF writeApi /\ ~failed THEN g4 ELSE g3} :
       \E rec \in IF failed THEN {<<>>}
                  ELSE {BurstRecord(clock, m, g1, g2, g3, period)} :
             /\ (~writeApi \/ failed) => writeOk
             /\ clock' = gEnd.now
             /\ ptpSync' = gEnd.sync
             /\ lastSyncCheck' = gEnd.last
             /\ flagAsOf' = IF gEnd.probed THEN gEnd.at
                            ELSE IF g3.probed /\ ~ExpectedIsNone(period)
                                 THEN g3.at
                            ELSE IF g2.probed THEN g2.at
                            ELSE IF g1.probed THEN g1.at ELSE flagAsOf
             /\ detectedBursts' = IF failed THEN detectedBursts
                                  ELSE Append(detectedBursts, rec)
             /\ sink' = IF writeApi /\ writeOk /\ ~failed
                        THEN Append(sink, [burst |-> Len(detectedBursts) + 1,
                                           ptp_sync |-> g4.flag])
                        ELSE sink
             /\ lastBurstTime' = LastBurstTimeAfter(clock, lastBurstTime,
                                    WriteOutcome(failed, writeApi, writeOk))
             /\ chunk' = [mag |-> m, answer |-> "continue",
                          at |-> clock, prevLast |-> lastBurstTime,
                          accepted |-> TRUE,
                          queries |-> IF ExpectedIsNone(period) THEN 2
                                      ELSE IF writeApi /\ ~failed THEN 4
                                      ELSE 3,
                          write |-> WriteOutcome(failed, writeApi, writeOk)]
    /\ UNCHANGED <<ptpOffset, period, otherVars, call, thr, genVars, capRunning, capPc,
                   streamActive, writeApi>>

ClockInit == MgrInit /\ GenInit /\ CapInit /\ MainInit /\ period = 4 /\ writeApi
ClockNext == Tick \/ GetPtpTime \/ IsSynchronized
SpecClock == ClockInit /\ [][ClockNext]_vars

GenSpecInit == MgrInit /\ GenInit /\ CapInit /\ MainInit /\ period \in GenPeriods /\ writeApi
GenNext ==
    \/ GenStart
    \/ GenStartVlc
    \/ GenWaitBegin
    \/ GenWake
    \/ GenTrigger
    \/ GenLoopExit
    \/ GenStopVlc
    \/ GenStop
    \/ GenStopShutdown
    \/ GenStopJoin
SpecGen == GenSpecInit /\ [][GenNext]_vars

CapSpecInit == MgrInit /\ GenInit /\ CapInit /\ MainInit /\ period \in Periods
CapNext ==
    \/ CapStartStream
    \/ CapStartFails
    \/ CapStartFinish
    \/ CapTick
    \/ CallbackNotRunning
    \/ CallbackNoBurst
    \/ CallbackBurst
    \/ CapStop
SpecCap == CapSpecInit /\ [][CapNext]_vars

\* the generator with a burst_interval longer than the join timeout, over
\* start(), stop() and start() again
RestartInit ==
    /\ MgrInit /\ GenInit /\ CapInit /\ MainInit
    /\ period = LongPeriod /\ ptpOffset = 0 /\ writeApi
RestartNext ==
    \/ GenNext
    \/ GenStopJoinTimesOut
    \/ GenRestart
    \/ OldLoopWake
    \/ OldLoopTrigger
    \/ OldLoopExit
SpecRestart == RestartInit /\ [][RestartNext]_vars

\* the generator with a positive burst_interval and a loop thread that is
\* scheduled whenever it can take a step
LiveInit == GenSpecInit /\ period \in Periods
LoopStep == GenWaitBegin \/ GenWake \/ GenTrigger
SpecLive == LiveInit /\ [][GenNext]_vars /\ WF_vars(LoopStep)

\* the capture started from a configuration file with burst_interval = 0
CapZeroInit == MgrInit /\ GenInit /\ CapInit /\ MainInit /\ period = 0
SpecCapZero == CapZeroInit /\ [][CapNext]_vars

\* a run of the installation check script
ScriptInit == ClockInit
ScriptNext == ScriptStart \/ ScriptCheck \/ ScriptReturn
SpecScript == ScriptInit /\ [][ScriptNext]_vars

\* the capture and a client that asks for the recent bursts
RecentInit == CapSpecInit /\ period = 4 /\ ptpOffset = 0 /\ writeApi
RecentNext == CapNext \/ GetRecentBurstsQuery
SpecRecent == RecentInit /\ [][RecentNext]_vars

\* the capture under a local clock that can be set back
CapStepInit == CapSpecInit /\ period = 4 /\ ptpOffset = 0 /\ writeApi
CapStepNext == CapNext \/ CapClockStepBack
SpecCapStep == CapStepInit /\ [][CapStepNext]_vars

\* main() and Config.validate over the configurations a file can hold
ConfigSpecInit ==
    /\ MgrInit /\ GenInit /\ CapInit
    /\ ConfigInit
    /\ period = 4 /\ ptpOffset = 0 /\ writeApi
ConfigNext == Validate \/ MainFromFile \/ MainRunRole
SpecConfig == ConfigSpecInit /\ [][ConfigNext]_vars

\* _detect_burst run twice for the first hit after construction
TwinInit ==
    /\ MgrInit /\ GenInit /\ CapInit /\ MainInit
    /\ period \in Periods /\ writeApi
TwinNext == Tick \/ DetectBurstTwice
SpecTwin == TwinInit /\ [][TwinNext]_vars

\* a client that asks for the offset
OffsetNext == Tick \/ CalculateOffsetQuery
SpecOffset == ClockInit /\ [][OffsetNext]_vars

\* two threads inside one PTPTimeManager
SyncInit == MgrInit /\ GenInit /\ CapInit /\ MainInit /\ period = 4 /\ writeApi /\ ptpOffset = 0
SyncNext ==
    \/ Tick
    \/ \E t \in Threads : RefreshEnter(t)
    \/ \E t \in Threads : RefreshProbe(t)
    \/ \E t \in Threads : RefreshSetLast(t)
    \/ \E t \in Threads : RefreshReturn(t)
SpecSync == SyncInit /\ [][SyncNext]_vars

\* =================================================================== claims

\* C1: for every period P > 0 and clock reading t >= 0 the boundary computed
\* in _wait_for_next_burst is strictly greater than t and at most P later,
\* so the computed wait_time lies in (0, P].
C1_BoundaryStrictlyAhead ==
    wait.computed =>
        /\ wait.nextBurst > wait.reading
        /\ wait.nextBurst - wait.reading <= period
        /\ wait.waitTime > 0
        /\ wait.waitTime <= period

\* C2: the boundary computation applied to its own result advances by
\* exactly one period: next_boundary(next_boundary(t,P),P) is
\* next_boundary(t,P) + P, never the same grid point again.
C2_BoundaryOfBoundary ==
    wait.computed =>
        NextBoundary(wait.nextBurst, period) = FAdd(wait.nextBurst, period)

\* C4: on each detected burst the expected time, in reference-clock units,
\* is the most recently elapsed grid boundary at or before the queried
\* reference time, floor(reference_time / period) * period, so it is never
\* later than the reference time at detection.
C4_ExpectedIsElapsedBoundary ==
    \A i \in 1 .. Len(detectedBursts) :
        LET b == detectedBursts[i]
        IN /\ b.expectedRef = Round(Round(b.refTime \div period) * period)
           /\ b.expectedRef <= b.refTime

\* C5: a raw hit at time d is accepted if and only if d minus the last
\* accepted time is strictly more than min_burst_gap, and any two accepted
\* bursts are more than min_burst_gap apart.
C5_Debounce ==
    /\ (chunk.answer = "continue" /\ chunk.mag > DetectionThreshold) =>
          (chunk.accepted <=> (chunk.at - chunk.prevLast > MinBurstGap))
    /\ chunk.accepted =>
          /\ Len(detectedBursts) >= 1
          /\ detectedBursts[Len(detectedBursts)].detection_time = chunk.at
    /\ \A i, j \in 1 .. Len(detectedBursts) :
          i < j => detectedBursts[j].detection_time
                     - detectedBursts[i].detection_time > MinBurstGap

\* two bursts were accepted and a further raw hit was discarded
C5_Witness ==
    /\ Len(detectedBursts) = 2
    /\ chunk.answer = "continue"
    /\ chunk.mag > DetectionThreshold
    /\ ~chunk.accepted

\* C6: a window whose normalized magnitude does not exceed the detection
\* threshold (silence, or exactly the threshold) emits no burst, appends no
\* record, writes nothing to the sink, and queries no clock.
C6_BelowThresholdSilent ==
    [][(chunk' # chunk /\ chunk'.answer = "continue"
           /\ chunk'.mag <= DetectionThreshold) =>
         /\ ~chunk'.accepted
         /\ chunk'.at = NoneVal
         /\ chunk'.queries = 0
         /\ chunk'.write = "none"
         /\ UNCHANGED <<detectedBursts, sink, lastBurstTime, clock, ptpSync,
                        lastSyncCheck, flagAsOf, call>>]_vars

\* a window exactly at the threshold was handled when the debounce gap
\* after an earlier burst had already passed
C6_Witness ==
    /\ chunk.answer = "continue"
    /\ chunk.mag = DetectionThreshold
    /\ Len(detectedBursts) >= 1
    /\ clock - lastBurstTime > MinBurstGap

\* C7: whenever the reference clock was not actually used for a burst (PTP
\* unsynchronized, or the query failed and local time was substituted) the
\* point written for it carries ptp_sync = false and its latency comes from
\* local-clock values only.
C7_UnsyncRecordsMarked ==
    \A k \in 1 .. Len(sink) :
        LET b == detectedBursts[sink[k].burst]
        IN b.src # "ptp" =>
              /\ sink[k].ptp_sync = FALSE
              /\ b.refSrc = "local"
              /\ b.offSrc = "local"

\* C8: get_ptp_time fails closed: when PTP is not synchronized, or the
\* reference clock query fails, times out or is malformed, it returns None
\* rather than a value.
C8_FailsClosed ==
    (call.op = "get_ptp_time" /\ (~call.sync \/ call.query # "time"))
        => call.ret = NoneVal

\* C9: get_ptp_time never raises; for every outcome of the probe and of the
\* query it returns a time value, and whenever the reference clock did not
\* deliver (unsynchronized, non-zero exit, no time line, unparsable time,
\* timeout, any other exception) that value is the local clock.
C9_NeverRaises ==
    call.op = "get_ptp_time" =>
        /\ ~call.raised
        /\ call.ret # NoneVal
        /\ call.ret >= 0
        /\ (~call.sync \/ call.query # "time") =>
               (call.src = "local" /\ call.ret = call.now)
        /\ (call.sync /\ call.query = "time") =>
               (call.src = "ptp" /\ call.ret = Round(call.now + ptpOffset))

\* the reference clock query raised an exception other than a timeout
C9_Witness ==
    call.op = "get_ptp_time" /\ call.sync /\ call.query = "error"

\* C10: is_synchronized probes exactly when more than the check interval
\* has passed since _last_sync_check (the first call after construction
\* included); otherwise it returns the cached flag and leaves _ptp_sync and
\* _last_sync_check alone; the flag it returns was determined at most one
\* check interval before the call.
C10_ProbeWhenStale ==
    call.op = "is_synchronized" =>
        /\ call.probed <=> (call.at - call.prevLast > SyncCheckInterval)
        /\ call.prevLast = InitialLastSyncCheck => call.probed
        /\ ~call.probed =>
              /\ call.flag = call.prevSync
              /\ call.sync = call.prevSync
              /\ call.last = call.prevLast
        /\ call.probed => call.last = call.at
        /\ call.at - flagAsOf <= SyncCheckInterval

\* is_synchronized answered from the cache exactly one check interval after
\* the last probe
C10_Witness ==
    /\ call.op = "is_synchronized"
    /\ ~call.probed
    /\ call.at - call.prevLast = SyncCheckInterval

\* C11: after any sync probe the synchronized flag is true only if the
\* daemon-liveness check succeeded and the clock-class query succeeded and
\* reported class 6 or 7; a dead daemon, a failed or timed-out command, a
\* missing CLOCK_CLASS line, an unparsable class or any other class leaves
\* the flag false, even if it was true before the probe.
C11_FlagOnlyIfLocked ==
    call.probed =>
        /\ call.sync <=> (/\ call.probe.pgrep = "ok"
                          /\ call.probe.pmc = "class"
                          /\ call.probe.cls \in {6, 7})
        /\ call.flag = call.sync
        /\ ptpSync = call.sync

\* a probe found a parsable class other than 6 and 7 while the flag was true
C11_Witness ==
    /\ call.probed
    /\ call.prevSync
    /\ call.probe.pmc = "class"
    /\ call.probe.cls = 52
    /\ ~ptpSync

\* C12: _ptp_sync and _last_sync_check are mutated under mutual exclusion:
\* when the audio-callback path and a status query call into the same
\* PTPTimeManager concurrently after the check interval has elapsed, at most
\* one sync probe is in flight at any time and only one refresh is
\* performed for that expiry.
C12_OneRefreshPerExpiry ==
    \A a, b \in Threads :
        a # b =>
            /\ ~(thr[a].pc = "probing" /\ thr[b].pc = "probing")
            /\ ~(/\ thr[a].pc \in {"probing", "probed"}
                 /\ thr[b].pc \in {"probing", "probed"}
                 /\ thr[a].seen = thr[b].seen)

\* C13: calculate_offset returns reference_time - local_time of the latest
\* reading and returns None if and only if that reading has no reference
\* time; in particular it returns None whenever the reference clock is
\* unsynchronized or its query failed.
C13_OffsetAbsentIffNoReference ==
    call.op = "calculate_offset" =>
        /\ call.absent <=> call.src # "ptp"
        /\ ~call.absent => call.offset = FSub(call.ret, call.now)
        /\ (~call.sync \/ call.query # "time") => call.absent

\* C14: AudioGenerator follows Idle -> WaitingForBoundary -> Triggering ->
\* WaitingForBoundary -> ... -> Stopped: start() takes the idle generator
\* into the loop thread, every trigger is immediately preceded in the same
\* loop iteration by a completed wait for a boundary computed from a fresh
\* clock reading, and no trigger occurs while idle or after the loop has
\* ended.
C14_StateMachine ==
    [][/\ (genPc = "idle" /\ genPc' # "idle") =>
              (genRunning' /\ genPc' = "start_vlc")
       /\ (genPc = "start_vlc" /\ genPc' # "start_vlc") =>
              genPc' \in {"loop", "sv_if"}
       /\ triggers' # triggers =>
              /\ triggers' = triggers + 1
              /\ genRunning
              /\ genPc = "check"
              /\ genPc' = "loop"
              /\ wait.computed
              /\ wait.iter = triggers
              /\ wait.nextBurst = NextBoundary(wait.reading, period)
              /\ wait.slept <=> wait.waitTime > 0
              /\ wait.slept => clock >= wakeAt
              /\ targets' = Append(targets, wait.nextBurst)
       /\ genPc \in ShutdownPcs \cup EndedPcs =>
              /\ triggers' = triggers
              /\ genPc' \in ShutdownPcs \cup EndedPcs]_vars

\* the loop has triggered twice, was stopped and has ended
C14_Witness ==
    /\ triggers >= 2
    /\ ~genRunning
    /\ genPc = "done"

\* C15: stop() on AudioGenerator and on AudioCapture is idempotent and valid
\* in every state, including before start(): no call raises, when a call
\* returns _running is False and the handles (playback process, audio
\* stream) are cleared, and a stop() of a component already stopped changes
\* nothing further.
C15_StopIdempotent ==
    [][/\ stopPc' # "raised"
       /\ (stopPc = "join" /\ stopPc' = "idle") =>
              (~genRunning' /\ ~vlcProcess')
       /\ (/\ stopPc # "idle"
           /\ ~genRunning
           /\ ~vlcProcess
           /\ genPc \in {"idle"} \cup EndedPcs) =>
              UNCHANGED <<genRunning, vlcProcess, genPc>>
       /\ capPc' = "stopped" => (~capRunning' /\ ~streamActive')]_vars

\* the small bounded tick within which a stop must be honoured: 200 ms,
\* rounded up to the resolution of the time axis
StopTick == (TicksPerSecond + 4) \div 5

\* C16: a stop() issued while the scheduler is sleeping until the next
\* boundary cancels that wait: the loop thread is out of the sleep and sees
\* the stop within a small bounded tick that does not depend on
\* burst_interval, not only after the full remaining wait has elapsed.
C16_StopCancelsWait ==
    (/\ stopAt # NoneVal
     /\ ~genRunning
     /\ wait.slept
     /\ wait.iter = triggers
     /\ genPc = "check") => clock - stopAt <= StopTick

\* C17: no burst storms: one running generator triggers at most once per
\* grid boundary, i.e. the boundaries targeted by successive triggers are
\* strictly increasing, even when the clock reading taken after waking is
\* earlier than the boundary that was waited for.
C17_TargetsStrictlyIncreasing ==
    \A i, j \in 1 .. Len(targets) : i < j => targets[i] < targets[j]

\* C18: a failure raised inside one iteration of the generator loop (during
\* the boundary wait or the trigger) or inside one audio callback is caught
\* within that iteration and the loop proceeds to the next iteration / next
\* callback; no per-iteration failure terminates the scheduling loop or
\* stops the audio stream.
C18_FailureKeepsLoop ==
    /\ (wait.raised /\ genRunning) => genPc \in LoopPcs
    /\ chunk.write = "failed" => chunk.answer = "continue"

\* C19: within one run the records appended to the detected-burst history
\* and handed to the sink have non-decreasing detection_time in emission
\* order, for every sequence of windows and of local-clock readings,
\* including a local clock that steps backwards.
C19_DetectionTimesOrdered ==
    /\ \A i, j \in 1 .. Len(detectedBursts) :
          i < j => detectedBursts[i].detection_time
                     <= detectedBursts[j].detection_time
    /\ \A k, l \in 1 .. Len(sink) :
          k < l =>
              /\ sink[k].burst < sink[l].burst
              /\ detectedBursts[sink[k].burst].detection_time
                    <= detectedBursts[sink[l].burst].detection_time

\* after one burst was recorded the clock was set back, and a raw hit at a
\* reading before that burst's detection time was handled
C19_Witness ==
    /\ Len(detectedBursts) >= 1
    /\ chunk.answer = "continue"
    /\ chunk.mag > DetectionThreshold
    /\ chunk.at # NoneVal
    /\ chunk.at < detectedBursts[Len(detectedBursts)].detection_time

\* a capacity N for the recent-history buffer: one less than the number of
\* detections followed, so that a full buffer receives a further record
HistoryCapacity == MaxHistory - 1

\* C20: the recent-history buffer of latency records is bounded: its length
\* never exceeds a fixed capacity N after any number of detections, and
\* when a record is added to a full buffer the oldest record is evicted
\* first (FIFO).
C20_HistoryBounded ==
    [][/\ Len(detectedBursts') <= HistoryCapacity
       /\ (/\ detectedBursts' # detectedBursts
           /\ Len(detectedBursts) = HistoryCapacity) =>
              /\ Len(detectedBursts') = HistoryCapacity
              /\ SubSeq(detectedBursts', 1, HistoryCapacity - 1)
                    = Tail(detectedBursts)]_vars

\* C21: a metrics-sink failure is isolated to the single record: if the
\* sink write raises, or the sink connection was never established, the
\* exception does not propagate out of the detection path, the debounce
\* state is updated exactly as on a successful write, and the next
\* qualifying burst is detected and recorded normally.
C21_SinkFailureIsolated ==
    /\ chunk.write \in {"failed", "noapi"} =>
          /\ chunk.answer = "continue"
          /\ chunk.accepted
          /\ \A k \in 1 .. Len(sink) : sink[k].burst # Len(detectedBursts)
    /\ chunk.accepted =>
          /\ lastBurstTime = chunk.at
          /\ Len(detectedBursts) >= 1
          /\ detectedBursts[Len(detectedBursts)].detection_time = chunk.at
    /\ (chunk.answer = "continue" /\ chunk.mag > DetectionThreshold) =>
          (chunk.accepted <=> chunk.at - chunk.prevLast > MinBurstGap)
    /\ ~writeApi => sink = <<>>

\* the write of the first burst failed; the second burst was recorded and
\* written
C21_Witness ==
    /\ writeApi
    /\ Len(detectedBursts) = 2
    /\ Len(sink) = 1
    /\ sink[1].burst = 2
    /\ chunk.write = "ok"

\* the largest quotient of a sample rate by a tone frequency
MaxQuotient ==
    CHOOSE m \in SampleRates : \A r \in SampleRates : m >= r /\ m >= 0 - r

\* tone frequency f divides sample rate r evenly: r / f is an integer
DividesEvenly(f, r) ==
    f # 0 /\ \E k \in (0 - MaxQuotient) .. MaxQuotient : k * f = r

\* C22: Config.validate() rejects (raises) every configuration in which
\* tone_frequency does not evenly divide sample_rate, or burst_duration or
\* burst_interval is non-positive, or burst_duration >= burst_interval, or
\* ptp.domain or ptp.priority lies outside [0,255]; and it returns True for
\* every configuration violating none of these.
C22_ValidateRejects ==
    validated # "none" =>
        LET bad == \/ ~DividesEvenly(cfg.tone_frequency, cfg.sample_rate)
                   \/ cfg.burst_duration <= 0
                   \/ cfg.burst_interval <= 0
                   \/ cfg.burst_duration >= cfg.burst_interval
                   \/ cfg.domain \notin 0 .. 255
                   \/ cfg.priority \notin 0 .. 255
        IN /\ bad => validated \in {"ValueError", "ZeroDivisionError"}
           /\ ~bad => validated = "True"

\* validate() was called on a configuration whose only fault is a burst
\* exactly as long as the interval
C22_Witness ==
    /\ validated = "ValueError"
    /\ DividesEvenly(cfg.tone_frequency, cfg.sample_rate)
    /\ cfg.burst_duration > 0
    /\ cfg.burst_duration = cfg.burst_interval
    /\ cfg.domain \in 0 .. 255
    /\ cfg.priority \in 0 .. 255

\* C23: an invalid configuration (one that Config.validate would reject)
\* fails fast at startup: main() never reaches run_generator or run_capture
\* with it, so no generator or capture component is constructed or started.
C23_InvalidConfigFailsFast ==
    mainPc \in {"run_generator", "run_capture"} =>
        ValidateOutcome(cfg) = "True"

\* C24: LatencyEstimator determinism: the recorded expected_time and
\* latency_ms are functions only of the recorded reference time (ptp_time),
\* the period, the offset and detection_time: two executions of
\* _detect_burst that record the same ptp_time, system_time and
\* detection_time with the same period produce the same expected_time and
\* latency_ms, with no dependence on further clock readings or other
\* hidden state.
C24_LatencyDeterministic ==
    (/\ twin # <<>>
     /\ twin[1].ptp_time = twin[2].ptp_time
     /\ twin[1].system_time = twin[2].system_time
     /\ twin[1].detection_time = twin[2].detection_time) =>
        /\ twin[1].expected_time = twin[2].expected_time
        /\ twin[1].latency_ms = twin[2].latency_ms

\* C25: latency_ms of every record equals (detection_time - expected_local)
\* * 1000, where expected_local is the expected boundary converted from
\* reference-clock units to the local clock by subtracting the current
\* offset; with offset 0 the conversion leaves the boundary unchanged.
C25_LatencyFormula ==
    \A i \in 1 .. Len(detectedBursts) :
       LET b == detectedBursts[i]
           expectedLocal == Round(b.expectedRef - b.offset)
       IN /\ b.expected_time = expectedLocal
          /\ b.latency_ms = Round(Round(b.detection_time - expectedLocal) * 1000)
          /\ b.offset = 0 => b.expected_time = b.expectedRef

\* a history with a record converted with a non-zero offset and a record
\* converted with offset 0
C25_Witness ==
    /\ \E i \in 1 .. Len(detectedBursts) : detectedBursts[i].offset # 0
    /\ \E i \in 1 .. Len(detectedBursts) : detectedBursts[i].offset = 0

\* C26: the capture side and the generator side snap to the grid with the
\* same formula: for every reference time t and period P, the boundary
\* _calculate_expected_burst_time derives (before offset conversion) equals
\* the boundary _wait_for_next_burst derives for the same t and P.
C26_SameGrid ==
    \A i \in 1 .. Len(detectedBursts) :
       detectedBursts[i].expectedRef =
           NextBoundary(detectedBursts[i].refTime, period)

\* a boundary derived by the capture side from a reading of the reference
\* clock that is off the grid and large enough to be rounded
C26_Witness ==
    \E i \in 1 .. Len(detectedBursts) :
       /\ detectedBursts[i].refSrc = "ptp"
       /\ detectedBursts[i].refTime % period # 0
       /\ detectedBursts[i].refTime > MantLimit

\* C27: every accepted burst yields exactly one latency record: each raw
\* hit that passes the debounce appends exactly one record to the history
\* and causes at most one sink write, including when no reference time is
\* available (the record is then still emitted, marked unsynchronized); a
\* burst is never recorded twice and never accepted without a record.
C27_OneRecordPerAcceptedHit ==
    /\ chunk.accepted =>
          Cardinality({i \in 1 .. Len(detectedBursts) :
                          detectedBursts[i].detection_time = chunk.at}) = 1
    /\ \A i \in 1 .. Len(detectedBursts) :
          Cardinality({k \in 1 .. Len(sink) : sink[k].burst = i}) <= 1
    /\ \A k \in 1 .. Len(sink) :
          detectedBursts[sink[k].burst].src # "ptp" => ~sink[k].ptp_sync

\* C28: the debounce timer _last_burst_time changes only when a raw hit is
\* accepted, and is then set to that hit's detection time: windows below
\* threshold and raw hits discarded by the debounce leave it unchanged, so
\* a discarded hit never extends the suppression interval.
C28_DebounceTimerFrame ==
    [][/\ lastBurstTime' # lastBurstTime =>
             /\ chunk'.accepted
             /\ chunk'.prevLast = lastBurstTime
             /\ IsRawHit(chunk'.mag)
             /\ GapPassed(chunk'.at, lastBurstTime)
             /\ lastBurstTime' = chunk'.at
       /\ (chunk' # chunk /\ chunk'.accepted) => lastBurstTime' = chunk'.at
       /\ (chunk' # chunk /\ ~chunk'.accepted) =>
             lastBurstTime' = lastBurstTime]_vars

\* a raw hit discarded by the debounce after an accepted one, the timer
\* still at the accepted hit's detection time
C28_Witness ==
    /\ ~chunk.accepted
    /\ chunk.at # NoneVal
    /\ IsRawHit(chunk.mag)
    /\ lastBurstTime > 0
    /\ chunk.at > lastBurstTime
    /\ lastBurstTime = chunk.prevLast

\* C29: a failed sync probe is not busy-retried: after a probe that fails
\* (dead daemon, timeout, unparsable output), last_checked is still
\* advanced, so neither get_ptp_time nor is_synchronized issues another
\* probe until more than check_interval has elapsed, however many times
\* they are called in between.
C29_FailedProbeNotRetried ==
    /\ (call.probed /\ ProbeFailed(call.probe)) =>
          /\ call.last = call.at
          /\ lastSyncCheck = call.at
          /\ ~ptpSync
    /\ (call.op \in {"get_ptp_time", "is_synchronized"} /\ call.afterFailure
          /\ call.at - call.prevLast <= SyncCheckInterval) =>
          /\ ~call.probed
          /\ call.last = call.prevLast
          /\ lastSyncCheck = flagAsOf

\* a call made within the check interval after a failed probe, and later
\* than the probe, answered without a new probe
C29_Witness ==
    /\ call.op \in {"get_ptp_time", "is_synchronized"}
    /\ call.afterFailure
    /\ ~call.probed
    /\ call.at > flagAsOf
    /\ lastSyncCheck = flagAsOf

\* C30: liveness under clock loss: while the generator is running and
\* stop() is not called, the loop keeps triggering bursts forever (every
\* boundary wait eventually ends and is followed by a trigger) even if the
\* reference clock is unavailable or unsynchronized for the whole run,
\* scheduling on the local-clock grid instead.  Stated as what a finite run
\* can refute: once VLC is started, the loop thread is still in its loop
\* for as long as _running is set and stop() has not been called.
C30_LoopKeepsTriggering ==
    (genRunning /\ vlcProcess /\ stopPc = "idle" /\ stopAt = NoneVal) =>
        genPc \in LoopPcs

\* with a positive burst_interval every iteration of a running loop ends in
\* a trigger, whatever the probes and the PHC queries answer, up to the
\* clock values of the model
LoopTriggersWhilePeriodPositive ==
    \A k \in 0 .. MaxBursts - 1 :
       (genPc = "loop" /\ genRunning /\ triggers = k) ~>
          (triggers > k \/ ~genRunning \/ ~ENABLED <<LoopStep>>_vars)

\* C31: if AudioCapture.start() fails while acquiring the audio backend or
\* opening/starting the stream, the exception propagates to the caller,
\* _running stays False, no capture thread is created, and by the time
\* run_capture exits every acquired audio resource has been released
\* (_stream and _audio are None).
C31_StartFailureCleanup ==
    /\ capPc = "start_failed" =>
          /\ capRes.failedAt \in StartFailures
          /\ ~capRunning
          /\ ~capRes.thread
    /\ (capPc = "stopped" /\ capRes.failedAt # "none") =>
          /\ ~capRunning
          /\ ~capRes.thread
          /\ ~capRes.audio
          /\ ~capRes.stream

\* run_capture has exited after start_stream() raised on an opened stream
C31_Witness ==
    /\ capPc = "stopped"
    /\ capRes.failedAt = "start_stream"

\* C32: once AudioCapture.start() has returned successfully, every audio
\* callback delivered before stop() is called is processed for detection
\* and answers 'continue'; no callback delivered between the stream being
\* started and stop() being called answers 'complete' (which would end the
\* stream), whatever the interleaving of the callback thread with start().
C32_NoCompleteBeforeStop ==
    /\ capPc \in {"stream_started", "started"} => chunk.answer # "complete"
    /\ capPc = "started" => streamActive

\* C33: at most one scheduling loop is active per AudioGenerator at any
\* time, over every sequence of start() and stop() calls: start() while
\* running creates no second thread, and a start() issued after a stop()
\* whose join timed out (the old loop still sleeping towards its boundary)
\* does not result in two loops both triggering bursts.
C33_OneLoop ==
    ~(/\ oldLoop.pc = "loop"
      /\ oldLoop.triggers > 0
      /\ genPc \in LoopPcs \cup {"start_vlc"})

\* C34: the playback-process handle is shut down safely under concurrency:
\* when stop() (caller thread) and the loop's own cleanup _stop_vlc
\* (scheduler thread) run concurrently, the process is terminated, the
\* handle ends up None, and neither thread ever invokes terminate/wait/kill
\* on a handle that the other thread has already cleared to None.
C34_HandleShutdownSafe ==
    /\ genPc # "died"
    /\ stopPc # "raised"
    /\ (genPc = "done" /\ stopPc \in {"join", "idle"} /\ ~genRunning) =>
          ~vlcProcess

\* C35: the generator's reported status is truthful: whenever
\* get_status()['running'] is True and the loop thread has had time to
\* start, a scheduling loop is actually alive; in particular, after the
\* playback process fails to start or the loop exits on an error,
\* 'running' does not remain True.
C35_StatusTruthful ==
    GetStatusRunning => genPc \notin EndedPcs

\* C36: get_recent_bursts(count) returns at most count records for every
\* count >= 0, namely the count most recently recorded bursts in detection
\* order (all of them if fewer exist, and none for count = 0), and leaves
\* the history unchanged.
C36_RecentBursts ==
    [][recent' # recent =>
          LET n == Len(detectedBursts)
              k == recent'.count
              ret == recent'.ret
          IN /\ Len(ret) <= k
             /\ Len(ret) = IF k <= n THEN k ELSE n
             /\ \A i \in 1 .. Len(ret) :
                   ret[i] = detectedBursts[n - Len(ret) + i]
             /\ detectedBursts' = detectedBursts]_vars

\* C37: Config.validate() has exactly two outcomes for every combination of
\* integer sample_rate, tone_frequency, domain, priority and numeric
\* durations: it returns True or it raises ValueError; no input (including
\* tone_frequency = 0 or a negative tone_frequency) makes it raise a
\* different error or accept a non-positive tone frequency.
C37_ValidateTwoOutcomes ==
    /\ validated \in {"none", "True", "ValueError"}
    /\ validated = "True" => cfg.tone_frequency > 0

\* each PTP tool was found: it ran, or its help text timed out
ToolsFound(tools) == \A i \in PtpTools : tools[i] \in {"ok", "timeout"}

\* C38: the installation check script reports overall success (main returns
\* 0) exactly when every individual check succeeded, and each check returns
\* True when the thing it checks is available; in particular test_ptp_tools
\* returns True when all three PTP tools are found.
C38_ScriptReportsSuccess ==
    script.pc = 7 =>
        /\ script.ret = 0 <=> \A i \in ScriptChecks : script.results[i]
        /\ script.env.imports => script.results[1]
        /\ ToolsFound(script.env.tools) => script.results[2]
        /\ script.env.audio => script.results[3]
        /\ script.env.config => script.results[4]
        /\ script.env.interface => script.results[5]

\* the largest multiplier a boundary can have in this model
MaxMultiple == (2 * MantLimit + 2 * SyncCheckInterval + Horizon) \div 2 + 2

\* C3: every boundary the scheduler waits for is an integer multiple of the
\* period (the float product k * period for an integer k), and the multiple
\* is fixed by the current clock reading and the period alone: k is
\* floor(reading / period) + 1, whatever was computed or triggered before.
C3_BoundaryOnGrid ==
    wait.computed =>
        /\ \E k \in 1 .. MaxMultiple : wait.nextBurst = Round(k * period)
        /\ wait.nextBurst =
              Round(Round(Round(wait.reading \div period) + 1) * period)

\* a boundary computed after an earlier boundary was waited for and triggered
C3_Witness == wait.computed /\ triggers >= 1 /\ wait.slept

====
